---- MODULE Spec2Model ----
(***************************************************************************)
(* Model of the schedule simulator of sim_schedules.py: ScheduleSimmer     *)
(* (memoized head-to-head resolution, record computation, sequential and   *)
(* pooled simulation of every opponent ordering) and print_records_dict.   *)
(*                                                                         *)
(* Team keys are strings in the program and are only compared with ==      *)
(* and >; they are modelled by the integers 1..N with the same order.      *)
(* Points are Decimal values compared exactly; they are modelled by        *)
(* integers.                                                               *)
(*                                                                         *)
(* A behaviour is a session on one ScheduleSimmer: main's call of          *)
(* simulate_all_schedules and its report loop, or a call of                *)
(* simulate_all_schedules_poolseasons; after main's part one further call  *)
(* may follow (sequential with the teams reversed, or pooled).             *)
(*                                                                         *)
(* Spec runs the simulator on well-formed leagues.  SpecMissing runs it    *)
(* on a score frame that lacks a row, SpecDuplicate on a team_keys list    *)
(* that names a team twice, and SpecPoolFail runs the pooled mode with     *)
(* workers that can fail.  SpecYahoo is the request cache of               *)
(* yahoo.YahooFantasyAPI (get_uri), which main uses before the simulator   *)
(* is built.                                                               *)
(***************************************************************************)
EXTENDS Integers, Sequences, FiniteSets, TLC

\* ------------------------------------------------------------------ bounds
\* most teams and most weeks of a league, most entries (teams times weeks)
\* of its score table, and most points the whole table adds up to
MaxTeams == 3
MaxWeeks == 3
MaxCells == 9
MaxTotal == 3

\* most URIs a YahooFantasyAPI is asked for, and most get_uri calls on it
MaxUris == 2
MaxApiCalls == 3

\* number of pool worker processes (multiprocessing.cpu_count())
MAX_PROCESSES == 2

VARIABLES
  team_keys,     \* list of team keys handed to the simulation
  scores_df,     \* (team_key, week_num) -> points
  nweeks,        \* self.nweeks
  nteams,        \* self.nteams
  mode,          \* "none", "seq" or "pool": which entry point runs
  pc,            \* position in the running entry point
  ti,            \* index in team_keys of team_i_key
  all_schedules, \* list(all_schedules_iter) for team_i_key
  j,             \* number of schedules already consumed from the iterator
  all_records,   \* team_key -> dict of record -> count
  cache,         \* functools.cache of _compute_h2h_result_cache
  body_runs,     \* cache key -> number of executions of the memoized body
  h2h_ret,       \* (a, b, w) -> set of results compute_h2h_result returned
  last_sched,    \* schedule of the latest compute_record call
  last_calls,    \* compute_h2h_result calls of the latest compute_record
  last_record,   \* value the latest compute_record returned
  report,        \* output of the latest print_records_dict call
  next_task,     \* pool: index of the next schedule imap hands out
  workers,       \* pool: indices of the schedules in the workers' hands
  results,       \* pool: index -> record returned by the worker
  prev_records,  \* what the previous call on this simmer returned, if any
  failures,      \* pool: index -> how the worker holding the schedule failed
  query_count,   \* YahooFantasyAPI.query_count
  uri_cache,     \* functools.cache of YahooFantasyAPI._get_uri_cached
  api_log        \* the get_uri calls made so far, with what they returned

vars == <<team_keys, scores_df, nweeks, nteams, mode, pc, ti, all_schedules,
          j, all_records, cache, body_runs, h2h_ret, last_sched, last_calls,
          last_record, report, next_task, workers, results,
          prev_records, failures, query_count, uri_cache, api_log>>

\* the state of the YahooFantasyAPI
apivars == <<query_count, uri_cache, api_log>>

\* the state of the ScheduleSimmer and of the simulation
simvars == <<team_keys, scores_df, nweeks, nteams, mode, pc, ti,
             all_schedules, j, all_records, cache, body_runs, h2h_ret,
             last_sched, last_calls, last_record, report, next_task,
             workers, results, prev_records, failures>>

\* ------------------------------------------------------- generic helpers
EmptyMap == [x \in {} |-> x]

\* evaluates v once and hands the value to F
With(F(_), v) == CHOOSE r \in {F(x) : x \in {v}} : TRUE

B2N(b) == IF b THEN 1 ELSE 0

RECURSIVE factorial(_)
factorial(n) == IF n <= 0 THEN 1 ELSE n * factorial(n - 1)

Range(s) == {s[i] : i \in 1..Len(s)}

RemoveAt(s, i) == [k \in 1..(Len(s) - 1) |-> IF k < i THEN s[k] ELSE s[k + 1]]

\* list.remove(x): drops the first occurrence of x
ListRemove(s, x) ==
  LET i == CHOOSE k \in 1..Len(s) : s[k] = x /\ \A m \in 1..(k - 1) : s[m] # x
  IN  RemoveAt(s, i)

RECURSIVE Concat(_)
Concat(ss) == IF Len(ss) = 0 THEN <<>> ELSE Head(ss) \o Concat(Tail(ss))

permutations_single(s) == <<s>>

\* itertools.permutations(s): every ordering of the positions of s, in
\* lexicographic order of the positions
RECURSIVE permutations(_)
permutations(s) ==
  IF Len(s) = 0 THEN << <<>> >>
  ELSE Concat([i \in 1..Len(s) |->
                 With(LAMBDA rest :
                        [k \in 1..Len(rest) |-> <<s[i]>> \o rest[k]],
                      permutations(With(LAMBDA t : t, RemoveAt(s, i))))])

\* Python's order on tuples (lexicographic)
TupleLess(a, b) ==
  \/ a[1] < b[1]
  \/ a[1] = b[1] /\ a[2] < b[2]
  \/ a[1] = b[1] /\ a[2] = b[2] /\ a[3] < b[3]

RECURSIVE sorted(_)
sorted(S) ==
  IF S = {} THEN <<>>
  ELSE With(LAMBDA m : <<m>> \o With(LAMBDA rest : sorted(rest), S \ {m}),
            CHOOSE x \in S : \A y \in S \ {x} : TupleLess(x, y))

\* --------------------------------------------------------- dictionaries
\* A dict is [default |-> is it a defaultdict(int), items |-> key -> value]
NewDefaultDict == [default |-> TRUE, items |-> EmptyMap]

NewDict(f) == [default |-> FALSE, items |-> f]

\* d[k]: a defaultdict inserts the missing key with int() = 0, a plain dict
\* raises KeyError
GetItem(d, k) ==
  IF k \in DOMAIN d.items THEN [val |-> d.items[k], d |-> d, err |-> FALSE]
  ELSE IF d.default
       THEN [val |-> 0, d |-> [d EXCEPT !.items = (k :> 0) @@ d.items],
             err |-> FALSE]
       ELSE [val |-> 0, d |-> d, err |-> TRUE]

\* d[k] += 1
IncrementOverwrite(d, k) ==
  With(LAMBDA g : [g.d EXCEPT !.items = (k :> 1) @@ g.d.items],
       GetItem(d, k))

Increment(d, k) ==
  With(LAMBDA g : [g.d EXCEPT !.items = (k :> (g.val + 1)) @@ g.d.items],
       GetItem(d, k))

\* ------------------------------------------------- head-to-head resolver
get_week_score(df, team_key, week) == df[<<team_key, week>>]

\* scores_df.loc[(team_key, week)] raises KeyError when the frame has no
\* row for the pair
week_score_missing(df, team_key, week) == <<team_key, week>> \notin DOMAIN df

\* body of the memoized method: (team a wins, team b wins, tie)
h2h_body_flipped(team_a_key, team_b_key, week_n) ==
  LET team_a_score == get_week_score(scores_df, team_a_key, week_n)
      team_b_score == get_week_score(scores_df, team_b_key, week_n)
      team_a_win   == team_a_score < team_b_score
      teamab_draw  == team_a_score = team_b_score
      team_b_win   == ~(teamab_draw \/ team_a_win)
  IN  <<team_a_win, team_b_win, teamab_draw>>

h2h_body_no_draw(team_a_key, team_b_key, week_n) ==
  LET team_a_score == get_week_score(scores_df, team_a_key, week_n)
      team_b_score == get_week_score(scores_df, team_b_key, week_n)
      team_a_win   == team_a_score > team_b_score
      teamab_draw  == team_a_score = team_b_score
      team_b_win   == ~team_a_win
  IN  <<team_a_win, team_b_win, teamab_draw>>

h2h_body(team_a_key, team_b_key, week_n) ==
  LET team_a_score == get_week_score(scores_df, team_a_key, week_n)
      team_b_score == get_week_score(scores_df, team_b_key, week_n)
      team_a_win   == team_a_score > team_b_score
      teamab_draw  == team_a_score = team_b_score
      team_b_win   == ~(teamab_draw \/ team_a_win)
  IN  <<team_a_win, team_b_win, teamab_draw>>

\* The memo m is [cache, runs, ret]: the functools.cache table, the number
\* of executions of the body per key, and the results handed to callers.
\* A call of the memoized method: a hit returns the stored tuple, a miss
\* runs the body and stores its result; a body that raises stores nothing.
\* err tells whether the call raised KeyError.
compute_h2h_result_cache(m, team_a_key, team_b_key, week_n) ==
  LET key == <<team_a_key, team_b_key, week_n>>
  IN  IF key \in DOMAIN m.cache
      THEN [res |-> m.cache[key], m |-> m, err |-> FALSE]
      ELSE IF \/ week_score_missing(scores_df, team_a_key, week_n)
              \/ week_score_missing(scores_df, team_b_key, week_n)
      THEN [res |-> <<>>, m |-> m, err |-> TRUE]
      ELSE With(LAMBDA r :
               [res |-> r, err |-> FALSE,
                m   |-> [m EXCEPT !.cache = (key :> r) @@ m.cache,
                                  !.runs  = (key :> (1 + (IF key \in DOMAIN m.runs
                                                          THEN m.runs[key]
                                                          ELSE 0)))
                                            @@ m.runs]],
             h2h_body(team_a_key, team_b_key, week_n))

\* bookkeeping: remember that the call key returned r
Returned(m, key, r) ==
  [m EXCEPT !.ret = (key :> ((IF key \in DOMAIN m.ret THEN m.ret[key] ELSE {})
                             \cup {r})) @@ m.ret]

compute_h2h_result_unsorted(m, team_a_key, team_b_key, week_n) ==
  compute_h2h_result_cache(m, team_a_key, team_b_key, week_n)

compute_h2h_result_unswapped(m, team_a_key, team_b_key, week_n) ==
  IF team_a_key > team_b_key
  THEN compute_h2h_result_cache(m, team_b_key, team_a_key, week_n)
  ELSE compute_h2h_result_cache(m, team_a_key, team_b_key, week_n)

compute_h2h_result(m, team_a_key, team_b_key, week_n) ==
  IF team_a_key > team_b_key
  THEN With(LAMBDA x :
              IF x.err THEN x
              ELSE [res |-> <<x.res[2], x.res[1], x.res[3]>>, m |-> x.m,
                    err |-> FALSE],
            compute_h2h_result_cache(m, team_b_key, team_a_key, week_n))
  ELSE compute_h2h_result_cache(m, team_a_key, team_b_key, week_n)

\* a call of compute_h2h_result together with the bookkeeping of its result
logged_h2h_call(m, team_a_key, team_b_key, week_n) ==
  With(LAMBDA x :
         IF x.err THEN x
         ELSE [res |-> x.res, err |-> FALSE,
               m   |-> Returned(x.m, <<team_a_key, team_b_key, week_n>>,
                                x.res)],
       compute_h2h_result(m, team_a_key, team_b_key, week_n))

\* ------------------------------------------------------- compute_record
week_num_wrapped(week_idx) == (week_idx % (nteams - 1)) + 1

\* week_num = week_idx + 1
week_num_of(week_idx) == week_idx + 1

\* other_team_key = schedule[week_idx % num_otherteams] (0-based in Python)
other_team_key_of(schedule, week_idx) ==
  schedule[(week_idx % (nteams - 1)) + 1]

\* one iteration of the for loop of compute_record; st carries the three
\* counters, the memo, the list of compute_h2h_result calls made and whether
\* the latest of them raised
compute_record_step(team_key, schedule, week_idx, st) ==
  LET week_num       == week_num_of(week_idx)
      other_team_key == other_team_key_of(schedule, week_idx)
  IN  With(LAMBDA x :
             IF x.err
             THEN [st EXCEPT !.err = TRUE,
                             !.calls = Append(st.calls,
                                 <<team_key, other_team_key, week_num>>)]
             ELSE [n_win  |-> st.n_win  + B2N(x.res[1]),
                   n_loss |-> st.n_loss + B2N(x.res[2]),
                   n_draw |-> st.n_draw + B2N(x.res[3]),
                   m      |-> x.m,
                   calls  |-> Append(st.calls,
                                     <<team_key, other_team_key, week_num>>),
                   err    |-> FALSE],
           logged_h2h_call(st.m, team_key, other_team_key, week_num))

RECURSIVE compute_record_loop(_, _, _, _)
compute_record_loop(team_key, schedule, week_idx, st) ==
  IF week_idx >= nweeks \/ st.err THEN st
  ELSE With(LAMBDA nst :
              compute_record_loop(team_key, schedule, week_idx + 1, nst),
            compute_record_step(team_key, schedule, week_idx, st))

\* rec is the returned record; err tells that the call raised KeyError
\* instead of returning
compute_record(m, team_key, schedule) ==
  With(LAMBDA st : [rec |-> <<st.n_win, st.n_loss, st.n_draw>>, m |-> st.m,
                    calls |-> st.calls, err |-> st.err],
       compute_record_loop(team_key, schedule, 0,
              [n_win |-> 0, n_loss |-> 0, n_draw |-> 0, m |-> m,
               calls |-> <<>>, err |-> FALSE]))

\* ---------------------------------------------------- permute_schedules
permute_schedules_drop_first(teamid, allteamids) ==
  permutations(Tail(allteamids))

permute_schedules(teamid, allteamids) ==
  LET opponents == ListRemove(allteamids, teamid)
  IN  permutations(opponents)

\* --------------------------------------------------- print_records_dict
\* second loop: for nwins in range(nweeks + 1): print d[(nwins, nloss, 0)]
RECURSIVE print_possible(_, _, _, _)
print_possible(d, n, nwins, out) ==
  IF nwins > n THEN [d |-> d, lines |-> out, err |-> FALSE]
  ELSE LET nloss == n - nwins
           k     == <<nwins, nloss, 0>>
       IN  With(LAMBDA g :
                  IF g.err THEN [d |-> d, lines |-> out, err |-> TRUE]
                  ELSE print_possible(g.d, n, nwins + 1,
                                      Append(out, <<k, g.val>>)),
                GetItem(d, k))

\* first loop: for k in sorted(d.keys()): print k, d[k]
nonzero_lines(d) ==
  With(LAMBDA ks : [i \in 1..Len(ks) |-> <<ks[i], d.items[ks[i]]>>],
       sorted(DOMAIN d.items))

\* what the call prints ("first" and "second" listing), the dictionary as
\* the call leaves it, and whether it raised KeyError
print_records_dict(d, n) ==
  With(LAMBDA second :
         [first |-> nonzero_lines(d), second |-> second.lines,
          d |-> second.d, err |-> second.err],
       print_possible(d, n, 0, <<>>))

\* ------------------------------------------------------------ the inputs
Teams(n) == 1..n

Orderings(S) ==
  {s \in [1..Cardinality(S) -> S] :
     \A a, b \in 1..Cardinality(S) : a # b => s[a] # s[b]}

\* the orderings of the teams 1..n the league may come in: the sorted one
\* and its rotations
Rotations(n) == {[i \in 1..n |-> ((i + r - 1) % n) + 1] : r \in 0..(n - 1)}

\* the lists of k scores whose sum is at most total
RECURSIVE ScoreLists(_, _)
ScoreLists(k, total) ==
  IF k = 0 THEN {<<>>}
  ELSE UNION {{<<v>> \o s : s \in ScoreLists(k - 1, total - v)} :
                v \in 0..total}

\* the scenario of three teams A, B, C (1, 2, 3) and two weeks with
\* A = [10, 20], B = [15, 15], C = [5, 25]
ScenarioScores ==
  (<<1, 1>> :> 10) @@ (<<1, 2>> :> 20) @@ (<<2, 1>> :> 15) @@
  (<<2, 2>> :> 15) @@ (<<3, 1>> :> 5) @@ (<<3, 2>> :> 25)

\* the score tables of n teams and w weeks: every table whose points sum to
\* at most MaxTotal, and the scenario
ScoreTables(n, w) ==
  {[c \in Teams(n) \X (1..w) |-> s[(c[1] - 1) * w + c[2]]] :
     s \in ScoreLists(n * w, MaxTotal)}
    \cup (IF n = 3 /\ w = 2 THEN {ScenarioScores} ELSE {})

NoReport ==
  [made |-> FALSE, by |-> "none", team |-> 0, first |-> <<>>,
   second |-> <<>>, err |-> FALSE]

memo == [cache |-> cache, runs |-> body_runs, ret |-> h2h_ret]

\* ScheduleSimmer.__init__ on the data frames of a league of n teams and w
\* weeks (nteams = len(teams_df)), and the team_keys list the simulation is
\* to be called with
InitSimmer(n, keys, scores, w) ==
  /\ nteams = n
  /\ team_keys = keys
  /\ scores_df = scores
  /\ nweeks = w
  /\ mode = "none"
  /\ pc = "start"
  /\ ti = 0
  /\ all_schedules = <<>>
  /\ j = 0
  /\ all_records = EmptyMap
  /\ cache = EmptyMap
  /\ body_runs = EmptyMap
  /\ h2h_ret = EmptyMap
  /\ last_sched = <<>>
  /\ last_calls = <<>>
  /\ last_record = <<>>
  /\ report = NoReport
  /\ next_task = 0
  /\ workers = {}
  /\ results = EmptyMap
  /\ prev_records = EmptyMap
  /\ failures = EmptyMap
  /\ query_count = 0
  /\ uri_cache = EmptyMap
  /\ api_log = <<>>

Init ==
  \E n \in 2..MaxTeams :
    \E w \in {x \in 1..MaxWeeks : n * x <= MaxCells} :
    \E keys \in Rotations(n), scores \in ScoreTables(n, w) :
      InitSimmer(n, keys, scores, w)

\* the score tables of n teams and w weeks that lack the row of one
\* (team, week) pair
MissingScoreTables(n, w) ==
  {[c \in (DOMAIN t) \ {miss} |-> t[c]] :
     t \in ScoreTables(n, w), miss \in Teams(n) \X (1..w)}

\* a simmer on a league whose score frame lacks one row
InitMissing ==
  \E n \in 2..MaxTeams :
    \E w \in {x \in 1..MaxWeeks : n * x <= MaxCells} :
    \E keys \in Rotations(n), scores \in MissingScoreTables(n, w) :
      InitSimmer(n, keys, scores, w)

\* the lists of the teams 1..n that name one team twice: an ordering the
\* league may come in, with one of its teams repeated at the end
DuplicateLists(n) == {Append(r, r[i]) : r \in Rotations(n), i \in 1..n}

\* a simmer on a league of n teams (teams_df has one row per team), and a
\* team_keys list for the simulation that holds a duplicate
InitDuplicate ==
  \E n \in 2..MaxTeams :
    \E w \in {x \in 1..MaxWeeks : n * x <= MaxCells} :
    \E keys \in DuplicateLists(n), scores \in ScoreTables(n, w) :
      InitSimmer(n, keys, scores, w)

team_i_key == team_keys[ti]

\* what a print_records_dict call leaves on the output
Printed(who, team, r) ==
  [made |-> TRUE, by |-> who, team |-> team, first |-> r.first,
   second |-> r.second, err |-> r.err]

\* ------------------------------------------- simulate_all_schedules
\* all_records = {x: defaultdict(int) for x in team_keys}
SeqBegin ==
  /\ pc = "start"
  /\ mode' = "seq"
  /\ all_records' = [x \in Range(team_keys) |-> NewDefaultDict]
  /\ ti' = 1
  /\ pc' = "seq_team"
  /\ UNCHANGED <<team_keys, scores_df, nweeks, nteams, all_schedules, j,
                 cache, body_runs, h2h_ret, last_sched, last_calls,
                 last_record, report, next_task, workers, results,
                 prev_records, failures, apivars>>

\* for team_i_key in team_keys: all_schedules_iter = permute_schedules(...)
SeqStartTeam ==
  /\ pc = "seq_team"
  /\ all_schedules' = permute_schedules(team_i_key, team_keys)
  /\ j' = 0
  /\ pc' = "seq_loop"
  /\ UNCHANGED <<team_keys, scores_df, nweeks, nteams, mode, ti, all_records,
                 cache, body_runs, h2h_ret, last_sched, last_calls,
                 last_record, report, next_task, workers, results,
                 prev_records, failures, apivars>>

\* one iteration of "for j, sched_j in enumerate(all_schedules_iter)"; a
\* KeyError of compute_record propagates out of simulate_all_schedules
SeqSchedule ==
  /\ pc = "seq_loop"
  /\ j < Len(all_schedules)
  /\ \E sched_j \in {all_schedules[j + 1]} :
       \E x \in {compute_record(memo, team_i_key, sched_j)} :
         /\ cache' = x.m.cache
         /\ body_runs' = x.m.runs
         /\ h2h_ret' = x.m.ret
         /\ last_sched' = sched_j
         /\ last_calls' = x.calls
         /\ IF x.err
            THEN /\ pc' = "KeyError"
                 /\ UNCHANGED <<all_records, last_record, j>>
            ELSE /\ all_records' =
                      [all_records EXCEPT ![team_i_key] = Increment(@, x.rec)]
                 /\ last_record' = x.rec
                 /\ j' = j + 1
                 /\ pc' = pc
  /\ UNCHANGED <<team_keys, scores_df, nweeks, nteams, mode, ti,
                 all_schedules, report, next_task, workers, results,
                 prev_records, failures, apivars>>

\* the iterator is exhausted: print_records_dict(all_records[team_i_key],
\* self.nweeks), then the next team or "return all_records"
SeqReport ==
  /\ pc = "seq_loop"
  /\ j = Len(all_schedules)
  /\ \E r \in {print_records_dict(all_records[team_i_key], nweeks)} :
         /\ all_records' = [all_records EXCEPT ![team_i_key] = r.d]
         /\ report' = Printed("simulate", team_i_key, r)
  /\ IF ti < Len(team_keys)
     THEN ti' = ti + 1 /\ pc' = "seq_team"
     ELSE ti' = 1 /\ pc' = "returned"
  /\ UNCHANGED <<team_keys, scores_df, nweeks, nteams, mode, all_schedules,
                 j, cache, body_runs, h2h_ret, last_sched, last_calls,
                 last_record, next_task, workers, results,
                 prev_records, failures, apivars>>

\* main: for team_key_i in all_records.keys(): print_records_dict(...)
MainReport ==
  /\ mode = "seq"
  /\ pc = "returned"
  /\ prev_records = EmptyMap
  /\ \E r \in {print_records_dict(all_records[team_i_key], nweeks)} :
         /\ all_records' = [all_records EXCEPT ![team_i_key] = r.d]
         /\ report' = Printed("main", team_i_key, r)
  /\ IF ti < Len(team_keys)
     THEN ti' = ti + 1 /\ pc' = "returned"
     ELSE ti' = ti /\ pc' = "main_done"
  /\ UNCHANGED <<team_keys, scores_df, nweeks, nteams, mode, all_schedules,
                 j, cache, body_runs, h2h_ret, last_sched, last_calls,
                 last_record, next_task, workers, results,
                 prev_records, failures, apivars>>

Reverse(s) == [i \in 1..Len(s) |-> s[Len(s) + 1 - i]]

\* a further call of simulate_all_schedules on the same simmer, with the
\* teams in the reverse order
SeqAgain ==
  /\ pc = "main_done"
  /\ prev_records = EmptyMap
  /\ prev_records' = all_records
  /\ team_keys' = Reverse(team_keys)
  /\ all_records' = [x \in Range(team_keys) |-> NewDefaultDict]
  /\ ti' = 1
  /\ pc' = "seq_team"
  /\ UNCHANGED <<scores_df, nweeks, nteams, mode, all_schedules, j,
                 cache, body_runs, h2h_ret, last_sched, last_calls,
                 last_record, report, next_task, workers, results, failures, apivars>>

\* ------------------------------- simulate_all_schedules_poolseasons
PoolBegin ==
  /\ pc \in {"start", "main_done"}
  /\ prev_records = EmptyMap
  /\ mode' = "pool"
  /\ prev_records' = all_records
  /\ all_records' = [x \in Range(team_keys) |-> NewDefaultDict]
  /\ ti' = 1
  /\ pc' = "pool_team"
  /\ UNCHANGED <<team_keys, scores_df, nweeks, nteams, all_schedules, j,
                 cache, body_runs, h2h_ret, last_sched, last_calls,
                 last_record, report, next_task, workers, results, failures, apivars>>

\* for team_i_key in team_keys: the iterator and a pool of MAX_PROCESSES
\* workers are created
PoolStartTeam ==
  /\ pc = "pool_team"
  /\ all_schedules' = permute_schedules(team_i_key, team_keys)
  /\ next_task' = 1
  /\ workers' = {}
  /\ results' = EmptyMap
  /\ failures' = EmptyMap
  /\ pc' = "pool_run"
  /\ UNCHANGED <<team_keys, scores_df, nweeks, nteams, mode, ti, j,
                 all_records, cache, body_runs, h2h_ret, last_sched,
                 last_calls, last_record, report,
                 prev_records, apivars>>

\* p.imap hands the next schedule of the iterator to an idle worker
PoolDispatch ==
  /\ pc = "pool_run"
  /\ Cardinality(workers) < MAX_PROCESSES
  /\ next_task <= Len(all_schedules)
  /\ workers' = workers \cup {next_task}
  /\ next_task' = next_task + 1
  /\ UNCHANGED <<team_keys, scores_df, nweeks, nteams, mode, pc, ti,
                 all_schedules, j, all_records, cache, body_runs, h2h_ret,
                 last_sched, last_calls, last_record, report, results,
                 prev_records, failures, apivars>>

\* the memo of a worker process: a private copy of the parent's, made when
\* the pool forks, which never flows back to the parent
WorkerMemo == memo

\* the worker holding schedule i runs
\* functools.partial(self.compute_record, team_i_key) on it; imap stores the
\* result at the schedule's position, or the exception the call raised
PoolWorkerFinish(i) ==
  /\ pc = "pool_run"
  /\ i \in workers
  /\ \E x \in {compute_record(WorkerMemo, team_i_key, all_schedules[i])} :
       IF x.err
       THEN failures' = (i :> "raised") @@ failures /\ results' = results
       ELSE results' = (i :> x.rec) @@ results /\ failures' = failures
  /\ workers' = workers \ {i}
  /\ UNCHANGED <<team_keys, scores_df, nweeks, nteams, mode, pc, ti,
                 all_schedules, j, all_records, cache, body_runs, h2h_ret,
                 last_sched, last_calls, last_record, report, next_task,
                 prev_records, apivars>>

\* the ways a worker can fail on a task: the task raises an exception, which
\* the worker sends back in place of the result, or the worker process is
\* terminated, and the pool replaces it without redoing its task
FailureKinds == {"raised", "died"}

\* the worker holding schedule i fails
PoolWorkerFail(i) ==
  /\ pc = "pool_run"
  /\ i \in workers
  /\ \E how \in FailureKinds : failures' = (i :> how) @@ failures
  /\ workers' = workers \ {i}
  /\ UNCHANGED <<team_keys, scores_df, nweeks, nteams, mode, pc, ti,
                 all_schedules, j, all_records, cache, body_runs, h2h_ret,
                 last_sched, last_calls, last_record, report, next_task,
                 results, prev_records, apivars>>

\* records_lst.count(k)
ListCount(lst, k) == Cardinality({i \in 1..Len(lst) : lst[i] = k})

\* {k: records_lst.count(k) for k in set(records_lst)}
CountDict(records_lst) ==
  NewDict([k \in Range(records_lst) |-> ListCount(records_lst, k)])

\* list(p.imap(...)) takes the results in the order of the schedules: the
\* length of the prefix of schedules whose results have arrived
Arrived ==
  CHOOSE k \in 0..Len(all_schedules) :
    /\ \A i \in 1..k : i \in DOMAIN results
    /\ (k + 1) \notin DOMAIN results

\* every result has arrived: records_lst = list(...), the team's dict is
\* replaced by the counts, print_records_dict is called; then the next team,
\* "return all_records", or the KeyError of print_records_dict propagates
PoolCollect ==
  /\ pc = "pool_run"
  /\ Arrived = Len(all_schedules)
  /\ \E records_lst \in {[i \in 1..Len(all_schedules) |-> results[i]]} :
       \E r \in {print_records_dict(CountDict(records_lst), nweeks)} :
         /\ all_records' = [all_records EXCEPT ![team_i_key] = r.d]
         /\ report' = Printed("simulate", team_i_key, r)
         /\ pc' = IF r.err THEN "KeyError"
                  ELSE IF ti < Len(team_keys) THEN "pool_team"
                  ELSE "pool_returned"
         /\ ti' = IF ~r.err /\ ti < Len(team_keys) THEN ti + 1 ELSE ti
  /\ UNCHANGED <<team_keys, scores_df, nweeks, nteams, mode, all_schedules,
                 j, cache, body_runs, h2h_ret, last_sched, last_calls,
                 last_record, next_task, workers, results,
                 prev_records, failures, apivars>>

\* list(p.imap(...)) reaches a schedule whose task raised: the exception is
\* raised again in the parent and leaves simulate_all_schedules_poolseasons;
\* leaving the with block terminates the pool.  A task lost with its worker
\* never arrives, and the parent waits for it for ever.
PoolRaise ==
  /\ pc = "pool_run"
  /\ (Arrived + 1) \in DOMAIN failures
  /\ failures[Arrived + 1] = "raised"
  /\ pc' = "WorkerException"
  /\ workers' = {}
  /\ UNCHANGED <<team_keys, scores_df, nweeks, nteams, mode, ti,
                 all_schedules, j, all_records, cache, body_runs, h2h_ret,
                 last_sched, last_calls, last_record, report, next_task,
                 results, prev_records, failures, apivars>>

\* the session on a well-formed league: no compute_record call raises, so
\* no task of the pool fails
Next ==
  \/ SeqBegin
  \/ SeqStartTeam
  \/ SeqSchedule
  \/ SeqReport
  \/ MainReport
  \/ SeqAgain
  \/ PoolBegin
  \/ PoolStartTeam
  \/ PoolDispatch
  \/ \E i \in workers : PoolWorkerFinish(i)
  \/ PoolCollect

Spec == Init /\ [][Next]_vars

\* ------------------------------------------------------ YahooFantasyAPI
\* The api is [query_count, uri_cache].  A call returns the api as it leaves
\* it, the response, and whether it raised; ok tells whether the request, if
\* one is issued, succeeds.
URIs == 1..MaxUris

\* oauth_client.get(url): every request is answered by a response object of
\* its own, named here by the uri and the number of the request
Response(uri, n) == <<uri, n>>

\* self.query_count += 1; return self.oauth_client.get(url)
get_uri_live(api, uri, ok) ==
  [api    |-> [api EXCEPT !.query_count = @ + 1],
   resp   |-> Response(uri, api.query_count + 1),
   raised |-> ~ok]

\* the functools.cache wrapper: a hit returns the stored response, a miss
\* calls _get_uri_live and stores what it returns; an exception stores
\* nothing
get_uri_cached(api, uri, ok) ==
  IF uri \in DOMAIN api.uri_cache
  THEN [api |-> api, resp |-> api.uri_cache[uri], raised |-> FALSE]
  ELSE With(LAMBDA x :
              IF x.raised THEN x
              ELSE [x EXCEPT !.api.uri_cache = (uri :> x.resp) @@ @],
            get_uri_live(api, uri, ok))

get_uri_always_cached(api, uri, bypasscache, ok) ==
  get_uri_cached(api, uri, ok)

get_uri(api, uri, bypasscache, ok) ==
  IF bypasscache THEN get_uri_live(api, uri, ok)
  ELSE get_uri_cached(api, uri, ok)

\* YahooFantasyAPI.__init__, before any league is loaded
InitYahoo == InitSimmer(0, <<>>, EmptyMap, 0)

\* a call of get_uri (get_resource calls it with the default
\* bypasscache=False, YahooTeamResource.scores with bypasscache=True)
GetUri ==
  /\ Len(api_log) < MaxApiCalls
  /\ \E uri \in URIs, bypasscache \in BOOLEAN, ok \in BOOLEAN :
       \E x \in {get_uri([query_count |-> query_count,
                           uri_cache |-> uri_cache], uri, bypasscache, ok)} :
         /\ query_count' = x.api.query_count
         /\ uri_cache' = x.api.uri_cache
         /\ api_log' = Append(api_log,
                          [uri |-> uri, bypasscache |-> bypasscache,
                           requested |-> x.api.query_count # query_count,
                           raised |-> x.raised,
                           resp |-> IF x.raised THEN <<>> ELSE x.resp])
  /\ UNCHANGED simvars

SpecYahoo == InitYahoo /\ [][GetUri]_vars

\* the simulation of a league whose score frame lacks a row: no team's
\* schedules are ever completed, so no report is made
NextMissing ==
  \/ SeqBegin
  \/ SeqStartTeam
  \/ SeqSchedule
  \/ PoolBegin
  \/ PoolStartTeam
  \/ PoolDispatch
  \/ \E i \in workers : PoolWorkerFinish(i)
  \/ PoolRaise

SpecMissing == InitMissing /\ [][NextMissing]_vars

\* simulate_all_schedules on a team_keys list with a duplicate
NextDuplicate ==
  \/ SeqBegin
  \/ SeqStartTeam
  \/ SeqSchedule
  \/ SeqReport

SpecDuplicate == InitDuplicate /\ [][NextDuplicate]_vars

\* simulate_all_schedules_poolseasons with workers that can fail
NextPoolFail ==
  \/ PoolBegin
  \/ PoolStartTeam
  \/ PoolDispatch
  \/ \E i \in workers : PoolWorkerFinish(i)
  \/ \E i \in workers : PoolWorkerFail(i)
  \/ PoolCollect
  \/ PoolRaise

SpecPoolFail == Init /\ [][NextPoolFail]_vars

\* ================================================================ claims
\* ------------------------------------------- vocabulary of the claims
\* the count a distribution holds for record r (no entry: no schedule)
StoredCount(d, r) == IF r \in DOMAIN d.items THEN d.items[r] ELSE 0

RECURSIVE SumOver(_, _)
SumOver(f, S) ==
  IF S = {} THEN 0
  ELSE With(LAMBDA x : f[x] + SumOver(f, S \ {x}), CHOOSE x \in S : TRUE)

TotalCount(d) == SumOver(d.items, DOMAIN d.items)

\* the orderings of the teams other than t
OpponentOrders(t) == Orderings(Range(team_keys) \ {t})

\* the opponent of week w (1-based) under the ordering p
OpponentInWeek(p, w) == p[((w - 1) % (Len(team_keys) - 1)) + 1]

\* the season of t against the ordering p, read off the score table
RecordUnder(t, p) ==
  <<Cardinality({w \in 1..nweeks :
       scores_df[<<t, w>>] > scores_df[<<OpponentInWeek(p, w), w>>]}),
    Cardinality({w \in 1..nweeks :
       scores_df[<<t, w>>] < scores_df[<<OpponentInWeek(p, w), w>>]}),
    Cardinality({w \in 1..nweeks :
       scores_df[<<t, w>>] = scores_df[<<OpponentInWeek(p, w), w>>]})>>

\* the number of orderings of t's opponents that give t the record r
CountFor(t, r) ==
  Cardinality({p \in OpponentOrders(t) : RecordUnder(t, p) = r})

PossibleRecords(t) == {RecordUnder(t, p) : p \in OpponentOrders(t)}

\* simulate_all_schedules has returned all_records
SeqReturned == mode = "seq" /\ pc \in {"returned", "main_done"}

\* simulate_all_schedules returns all_records
SeqReturns == mode = "seq" /\ pc = "returned" /\ report.by = "simulate"

\* C1: for every team the counts of the distribution simulate_all_schedules
\* returns sum to exactly (N-1)!
C1_CountsSumToFactorial ==
  SeqReturned =>
    \A t \in Range(team_keys) :
      TotalCount(all_records[t]) = factorial(Len(team_keys) - 1)

\* three teams, and a team whose two schedules give the same record
C1_Witness ==
  /\ SeqReturned
  /\ Len(team_keys) = 3
  /\ \E t \in Range(team_keys) :
       \E r \in DOMAIN all_records[t].items : all_records[t].items[r] = 2

\* C2: the count stored for a record r of team t is the number of orderings p
\* of the other teams under which t, playing p[(w-1) mod (N-1)] in week w,
\* ends with r; in the scenario of A, B, C team A has (0,2,0) and (2,0,0)
\* once each and no other record
C2_CountsMatchSchedules ==
  SeqReturns =>
    /\ \A t \in Range(team_keys) :
         \A r \in DOMAIN all_records[t].items \cup PossibleRecords(t) :
           StoredCount(all_records[t], r) = CountFor(t, r)
    /\ scores_df = ScenarioScores =>
         \A r \in (0..2) \X (0..2) \X (0..2) :
           StoredCount(all_records[1], r) =
             IF r \in {<<0, 2, 0>>, <<2, 0, 0>>} THEN 1 ELSE 0

C2_Witness ==
  /\ SeqReturns
  /\ scores_df = ScenarioScores
  /\ StoredCount(all_records[1], <<0, 2, 0>>) = 1
  /\ StoredCount(all_records[1], <<2, 0, 0>>) = 1

\* C3: on the same input the pooled mode completes like the sequential mode
\* and returns, for every team, the same record keys with the same counts
C3_ModesAgree ==
  mode = "pool" =>
    /\ pc # "KeyError"
    /\ (pc = "pool_returned" /\ prev_records # EmptyMap) =>
         \A t \in Range(team_keys) :
           all_records[t].items = prev_records[t].items

RecordTotal(r) == r[1] + r[2] + r[3]

\* C4: every record compute_record returns has wins + losses + ties equal to
\* the number of weeks
C4_RecordSumsToWeeks ==
  /\ last_record # <<>> => RecordTotal(last_record) = nweeks
  /\ \A i \in DOMAIN results : RecordTotal(results[i]) = nweeks

\* a returned record with a win and a tie in it
C4_Witness ==
  /\ last_record # <<>>
  /\ last_record[1] > 0
  /\ last_record[3] > 0

\* C5: the results of compute_h2h_result(A, B, w) and of
\* compute_h2h_result(B, A, w) mirror each other: first and second component
\* swapped, tie component equal
C5_H2HMirror ==
  \A k \in DOMAIN h2h_ret :
    (k[1] < k[2] /\ <<k[2], k[1], k[3]>> \in DOMAIN h2h_ret) =>
      \A r \in h2h_ret[k], r2 \in h2h_ret[<<k[2], k[1], k[3]>>] :
        r[1] = r2[2] /\ r[2] = r2[1] /\ r[3] = r2[3]

\* both calls were made for a decided matchup, the one with the greater key
\* in front (the call that swaps) first, on an empty cache
C5_Witness ==
  /\ team_keys[1] > team_keys[2]
  /\ \E w \in 1..nweeks :
       /\ <<team_keys[1], team_keys[2], w>> \in DOMAIN h2h_ret
       /\ <<team_keys[2], team_keys[1], w>> \in DOMAIN h2h_ret
       /\ <<TRUE, FALSE, FALSE>> \in h2h_ret[<<team_keys[1], team_keys[2], w>>]

\* permute_schedules has just been called for team_i_key
Enumerating ==
  \/ pc = "seq_loop" /\ j = 0
  \/ pc = "pool_run" /\ next_task = 1

\* C6: permute_schedules(focal, allTeams) on k+1 distinct teams yields k!
\* orderings, pairwise distinct, each holding every other team exactly once
\* and never the focal team
C6_PermuteSchedules ==
  Enumerating =>
    /\ Len(all_schedules) = factorial(Len(team_keys) - 1)
    /\ \A a, b \in 1..Len(all_schedules) :
         a # b => all_schedules[a] # all_schedules[b]
    /\ \A a \in 1..Len(all_schedules) :
         /\ Len(all_schedules[a]) = Len(team_keys) - 1
         /\ Range(all_schedules[a]) = Range(team_keys) \ {team_i_key}

\* three teams, the focal team in the middle of the list
C6_Witness ==
  /\ Enumerating
  /\ Len(team_keys) = 3
  /\ ti = 2
  /\ Len(all_schedules) = 2

\* C7: simulate_all_schedules returns the same record-to-count mapping for
\* every team when the same teams are passed in another order
C7_OrderInvariant ==
  (SeqReturned /\ prev_records # EmptyMap) =>
    \A t \in Range(team_keys) :
      all_records[t].items = prev_records[t].items

\* three teams passed in both orders, one of which has two different records
C7_Witness ==
  /\ SeqReturned
  /\ prev_records # EmptyMap
  /\ Len(team_keys) = 3
  /\ \E t \in Range(team_keys) : Cardinality(PossibleRecords(t)) = 2

\* C8: compute_record plays week w against schedule[(w-1) mod (N-1)], the
\* opponent of week ((w-1) mod (N-1)) + 1, on the scores of week w
C8_WrapUsesWeekScores ==
  (pc = "seq_loop" /\ j > 0) =>
    /\ Len(last_calls) = nweeks
    /\ \A w \in 1..nweeks :
         /\ last_calls[w] =
              <<team_i_key, last_sched[((w - 1) % (Len(team_keys) - 1)) + 1], w>>
         /\ last_calls[w][2] =
              last_calls[((w - 1) % (Len(team_keys) - 1)) + 1][2]
    /\ last_record = RecordUnder(team_i_key, last_sched)

\* more weeks than opponents, and the replayed opponent is beaten in one week
\* and wins the other
C8_Witness ==
  /\ pc = "seq_loop"
  /\ j > 0
  /\ nweeks > Len(team_keys) - 1
  /\ Len(last_calls) = nweeks
  /\ last_record = <<1, 1, 0>>

\* the completeness listing as the claim has it: every (wins, W - wins, 0)
\* with its count
CompleteListing(t) ==
  [i \in 1..(nweeks + 1) |->
     <<<<i - 1, nweeks - (i - 1), 0>>,
       CountFor(t, <<i - 1, nweeks - (i - 1), 0>>)>>]

\* C9: in both modes the completeness listing of a report shows every record
\* (wins, W - wins, 0), wins in 0..W, with its count, 0 included, and no error
\* is raised
C9_CompletenessListing ==
  report.made =>
    /\ ~report.err
    /\ report.second = CompleteListing(report.team)

\* C10: the first listing of every report holds exactly the records with a
\* count above zero, in ascending order, each with its count
C10_NonzeroListing ==
  report.made =>
    /\ \A i \in 1..Len(report.first) :
         /\ report.first[i][2] > 0
         /\ report.first[i][2] = CountFor(report.team, report.first[i][1])
    /\ {report.first[i][1] : i \in 1..Len(report.first)} =
         PossibleRecords(report.team)
    /\ \A i \in 1..(Len(report.first) - 1) :
         TupleLess(report.first[i][1], report.first[i + 1][1])

\* the score frame lacks the row of a team of the league in a week 1..W
MissingInput ==
  \E t \in Range(team_keys), w \in 1..nweeks :
    week_score_missing(scores_df, t, w)

\* C11: when a (team, week) pair with week in 1..W lacks a score, the
\* simulation fails before the first schedule of any team is enumerated or
\* tallied: no schedule list is made, no task result arrives and no record
\* count is incremented
C11_MissingScoreEager ==
  MissingInput =>
    /\ all_schedules = <<>>
    /\ results = EmptyMap
    /\ \A t \in DOMAIN all_records : TotalCount(all_records[t]) = 0

HasDuplicate(s) == \E a, b \in DOMAIN s : a # b /\ s[a] = s[b]

\* C12: when team_keys holds a duplicate, the simulation fails before any
\* schedule is enumerated and returns no distribution
C12_DuplicateRejected ==
  HasDuplicate(team_keys) =>
    /\ all_schedules = <<>>
    /\ ~SeqReturned

\* a worker has failed on a schedule of team_i_key
WorkerFailed == mode = "pool" /\ failures # EmptyMap

\* C13: in parallel mode a worker failure while team T is processed does not
\* abort the call: T ends marked failed with no distribution built from the
\* partial results, and every other team has its complete distribution in the
\* returned result
C13_WorkerFailureIsolated ==
  WorkerFailed =>
    /\ pc # "WorkerException"
    /\ pc = "pool_returned" =>
         /\ all_records[team_i_key].items = EmptyMap
         /\ \A t \in Range(team_keys) \ {team_i_key} :
              \A r \in PossibleRecords(t) :
                StoredCount(all_records[t], r) = CountFor(t, r)

\* the cache key of the matchup of a and b in week w
MatchupKey(a, b, w) == IF a > b THEN <<b, a, w>> ELSE <<a, b, w>>

\* C14: in one process the memoized method is only ever entered with
\* team_a_key <= team_b_key, its body has run exactly once for every matchup
\* and week that compute_h2h_result was asked for, in whichever order of the
\* two teams and however often, and never for the two teams in the other
\* order
C14_MatchupComputedOnce ==
  /\ DOMAIN cache = DOMAIN body_runs
  /\ \A k \in DOMAIN body_runs : k[1] <= k[2] /\ body_runs[k] = 1
  /\ \A c \in DOMAIN h2h_ret :
       /\ MatchupKey(c[1], c[2], c[3]) \in DOMAIN cache
       /\ c[1] > c[2] => c \notin DOMAIN cache

\* a matchup was asked for from both sides, and by several schedules
C14_Witness ==
  /\ Len(team_keys) = 3
  /\ SeqReturned
  /\ \E k \in DOMAIN body_runs :
       /\ k[1] < k[2]
       /\ body_runs[k] = 1
       /\ k \in DOMAIN h2h_ret
       /\ <<k[2], k[1], k[3]>> \in DOMAIN h2h_ret

\* every request made so far succeeded
AllSucceeded == \A i \in DOMAIN api_log : ~api_log[i].raised

BypassCalls == {i \in DOMAIN api_log : api_log[i].bypasscache}

CachedCalls == {i \in DOMAIN api_log : ~api_log[i].bypasscache}

\* the first call with bypasscache=False for the uri
FirstCached(uri) ==
  CHOOSE i \in CachedCalls :
    /\ api_log[i].uri = uri
    /\ \A h \in CachedCalls : api_log[h].uri = uri => i <= h

\* C15: while every request succeeds, query_count is the number of calls
\* with bypasscache=True plus the number of distinct URIs asked for with
\* bypasscache=False; a call with bypasscache=False for a URI already asked
\* for that way issues no request and returns the response of the first such
\* call; the cache holds exactly those first responses, so that a call with
\* bypasscache=True neither adds nor replaces an entry
C15_QueryCount ==
  AllSucceeded =>
    /\ query_count = Cardinality(BypassCalls)
                       + Cardinality({api_log[i].uri : i \in CachedCalls})
    /\ \A i \in BypassCalls : api_log[i].requested
    /\ \A i \in CachedCalls :
         /\ api_log[i].requested <=> i = FirstCached(api_log[i].uri)
         /\ api_log[i].resp = api_log[FirstCached(api_log[i].uri)].resp
    /\ DOMAIN uri_cache = {api_log[i].uri : i \in CachedCalls}
    /\ \A u \in DOMAIN uri_cache : uri_cache[u] = api_log[FirstCached(u)].resp

\* a URI is fetched, then fetched live, then asked for again: the third call
\* issues no request and returns the response of the first
C15_Witness ==
  /\ AllSucceeded
  /\ Len(api_log) = 3
  /\ api_log[1].uri = api_log[2].uri
  /\ api_log[2].uri = api_log[3].uri
  /\ ~api_log[1].bypasscache
  /\ api_log[2].bypasscache
  /\ ~api_log[3].bypasscache
  /\ query_count = 2
  /\ api_log[3].resp = api_log[1].resp
  /\ api_log[3].resp # api_log[2].resp

====
